---- MODULE Spec2Model ----
(***************************************************************************)
(* A model of google_client.py: the pydantic parameter model               *)
(* GoogleSearchQueryParameter and the class GoogleClient (its constructor, *)
(* search and search_query_parameter).                                     *)
(*                                                                         *)
(* Python values are tagged records: None, PyInt(i), PyStr(s).  A dict is  *)
(* a function from key strings to Python values.  The outcome of a call is *)
(* Return(v) or Raise(exc).                                                *)
(***************************************************************************)
EXTENDS Integers, Sequences, FiniteSets, TLC

VARIABLES
    environ,   \* os.environ, restricted to the two variables the client reads
    client,    \* the GoogleClient object (its attributes), NoClient before construction
    ctor,      \* the constructor call that made the client: arguments, environ then, outcome
    argv,      \* the keyword arguments drawn for search_query_parameter (SpecParam)
    last       \* the most recent method call on the client: arguments, requests issued, outcome

vars == <<environ, client, ctor, argv, last>>

----------------------------------------------------------------------------
(* Python values *)

None == [t |-> "None"]
PyInt(i) == [t |-> "int", v |-> i]
PyStr(s) == [t |-> "str", v |-> s]

\* Python truthiness of None, an int or a str ("not x" is ~Truthy(x))
Truthy(x) ==
    CASE x.t = "None" -> FALSE
      [] x.t = "int" -> x.v # 0
      [] x.t = "str" -> x.v # ""

EmptyDict == [k \in {} |-> None]

Return(v) == [kind |-> "return", value |-> v]
Raise(e) == [kind |-> "raise", exc |-> e]

NotCalled == [op |-> "none"]
NoClient == [cls |-> "none"]
NoArgs == [given |-> FALSE]

----------------------------------------------------------------------------
(* Bounds *)

\* how far below ge and above le the num arguments of SpecParam reach
NumSlack == 1
\* the longest items sequence of a response
MaxItems == 2

----------------------------------------------------------------------------
(* GoogleSearchQueryParameter *)

NumGe == 1
NumLe == 100
NumDefault == 10
LrDefault == "lang_ja"

\* the fields of the model, in declaration order
FieldNames == <<"num", "start", "lr", "sort", "dateRestrict", "exactTerms",
                "excludeTerms", "safe">>
Fields == {FieldNames[i] : i \in 1..Len(FieldNames)}

\* the keyword defaults of search_query_parameter's signature
SignatureDefaults ==
    [k \in Fields |->
        CASE k = "num" -> PyInt(NumDefault)
          [] k = "lr" -> PyStr(LrDefault)
          [] OTHER -> None]

\* binding of the keyword arguments a caller supplied to the signature
BindDefaults(kwargs) ==
    [k \in Fields |-> IF k \in DOMAIN kwargs THEN kwargs[k] ELSE SignatureDefaults[k]]

\* mutant: le taken as a strict bound
FieldValidStrictLe(k, v) ==
    IF k = "num"
    THEN v = None \/ (v.t = "int" /\ v.v >= NumGe /\ v.v < NumLe)
    ELSE v = None \/ v.t = "str"

\* mutant: the upper bound is not enforced
FieldValidNoLe(k, v) ==
    IF k = "num"
    THEN v = None \/ (v.t = "int" /\ v.v >= NumGe)
    ELSE v = None \/ v.t = "str"

\* a field's declared type and constraints: num is int | None with ge and le,
\* every other field is str | None
FieldValid(k, v) ==
    IF k = "num"
    THEN v = None \/ (v.t = "int" /\ v.v >= NumGe /\ v.v <= NumLe)
    ELSE v = None \/ v.t = "str"

\* construction of the model: the validated fields, or pydantic's ValidationError
GoogleSearchQueryParameter(values) ==
    IF \A k \in Fields : FieldValid(k, values[k])
    THEN Return([k \in Fields |-> values[k]])
    ELSE Raise("ValidationError")

model_dump(m) == [k \in Fields |-> m[k]]

\* mutant: the comprehension filters on truthiness ("if v")
DropFalsy(d) == [k \in {f \in DOMAIN d : Truthy(d[f])} |-> d[k]]

\* {k: v for k, v in d.items() if v is not None}
DropNone(d) == [k \in {f \in DOMAIN d : d[f] # None} |-> d[k]]

search_query_parameter(kwargs) ==
    LET query_parameter == GoogleSearchQueryParameter(BindDefaults(kwargs))
    IN  IF query_parameter.kind = "raise"
        THEN query_parameter
        ELSE Return(DropNone(model_dump(query_parameter.value)))

----------------------------------------------------------------------------
(* The argument spaces *)

\* for a str | None field: None, and the string nearest to it, the empty one
StrArgs == {None, PyStr("")}
\* exactTerms also takes a non-empty string
TermArgs == StrArgs \cup {PyStr("foo")}
NumArgs == {None} \cup {PyInt(i) : i \in (NumGe - NumSlack)..(NumLe + NumSlack)}

\* a keyword the caller leaves out
Omitted == [t |-> "omitted"]

\* every way to call search_query_parameter within the signature's types:
\* each keyword left out, None, or a value of its type
ParamChoices ==
    [num : NumArgs \cup {Omitted}, start : StrArgs \cup {Omitted},
     lr : StrArgs \cup {Omitted}, sort : StrArgs \cup {Omitted},
     dateRestrict : StrArgs \cup {Omitted}, exactTerms : TermArgs \cup {Omitted},
     excludeTerms : StrArgs \cup {Omitted}, safe : StrArgs \cup {Omitted}]

\* the keyword arguments of a choice: the keywords that are given
Supplied(c) == [k \in {f \in Fields : c[f] # Omitted} |-> c[k]]

\* the calls of search_query_parameter made on the client in Spec
ClientParamSpace ==
    {EmptyDict, [num |-> PyInt(NumLe + 1)], [exactTerms |-> PyStr("foo")]}

----------------------------------------------------------------------------
(* GoogleClient.__init__ *)

EnvNames == {"CUSTOM_SEARCH_API_KEY", "SEARCH_ENGINE_ID"}

\* os.getenv(name): the value, or None when the variable is not set
getenv(env, name) == env[name]

\* mutant: the environment wins over an explicit argument
GoogleClientEnvFirst(api_key, cse_id, env) ==
    LET ek == getenv(env, "CUSTOM_SEARCH_API_KEY")
        ec == getenv(env, "SEARCH_ENGINE_ID")
    IN  Return([custom_search_api_key |-> IF ek # None THEN ek ELSE api_key,
                cse_id |-> IF ec # None THEN ec ELSE cse_id])

\* mutant: construction fails fast when a credential resolves to nothing
GoogleClientFailFast(api_key, cse_id, env) ==
    LET key == IF ~Truthy(api_key) THEN getenv(env, "CUSTOM_SEARCH_API_KEY") ELSE api_key
        cse == IF ~Truthy(cse_id) THEN getenv(env, "SEARCH_ENGINE_ID") ELSE cse_id
    IN  IF key = None \/ cse = None
        THEN Raise("ValueError")
        ELSE Return([custom_search_api_key |-> key, cse_id |-> cse])

\* the constructor: it cannot raise, and returns the object with its two attributes
GoogleClient(api_key, cse_id, env) ==
    LET key == IF ~Truthy(api_key) THEN getenv(env, "CUSTOM_SEARCH_API_KEY") ELSE api_key
        cse == IF ~Truthy(cse_id) THEN getenv(env, "SEARCH_ENGINE_ID") ELSE cse_id
    IN  Return([custom_search_api_key |-> key, cse_id |-> cse])

----------------------------------------------------------------------------
(* GoogleClient.search *)

\* the parameter names of search itself; a key of **kwargs that repeats one is
\* a TypeError when the call is bound
SearchParams == {"self", "query"}
\* the keywords search passes to list(); a key of **kwargs that repeats one is
\* a TypeError at the call of list
ListKeywords == {"q", "cx"}

\* list(q=query, cx=self.cse_id, **kwargs): the parameters of the request
ListParams(query, cx, kwargs) ==
    [k \in ListKeywords \cup DOMAIN kwargs |->
        CASE k = "q" -> query
          [] k = "cx" -> cx
          [] OTHER -> kwargs[k]]

\* build(..., developerKey=key) and list(...): the request that execute() sends
Request(self, query, kwargs) ==
    [developerKey |-> self.custom_search_api_key,
     params |-> ListParams(query, self.cse_id, kwargs)]

\* mutant: a failed request is sent once more
ExecuteRetry(request, transport) ==
    [requests |-> IF transport.kind = "raise" THEN <<request, request>> ELSE <<request>>,
     outcome |-> IF transport.kind = "raise" THEN transport ELSE Return(transport.value)]

\* execute(): one request to the remote API; what the remote does with it is
\* the transport's answer, a response body or an error raised to the caller
Execute(request, transport) ==
    [requests |-> <<request>>,
     outcome |-> IF transport.kind = "raise" THEN transport ELSE Return(transport.value)]

\* mutant: res.get('items', [])
GetItemOrEmpty(res, key) ==
    IF key \in DOMAIN res THEN Return(res[key]) ELSE Return(<<>>)

\* res['items']
GetItem(res, key) ==
    IF key \in DOMAIN res THEN Return(res[key]) ELSE Raise("KeyError")

\* mutant: search returns the response instead of its items
searchReturnsRes(self, query, kwargs, transport) ==
    IF DOMAIN kwargs \cap (SearchParams \cup ListKeywords) # {}
    THEN [requests |-> <<>>, outcome |-> Raise("TypeError")]
    ELSE Execute(Request(self, query, kwargs), transport)

\* mutant: search validates the options again before sending them
searchValidated(self, query, kwargs, transport) ==
    IF DOMAIN kwargs \cap (SearchParams \cup ListKeywords) # {}
    THEN [requests |-> <<>>, outcome |-> Raise("TypeError")]
    ELSE IF \E k \in DOMAIN kwargs \cap Fields : ~FieldValid(k, kwargs[k])
    THEN [requests |-> <<>>, outcome |-> Raise("ValidationError")]
    ELSE LET res == Execute(Request(self, query, kwargs), transport)
         IN  IF res.outcome.kind = "raise"
             THEN res
             ELSE [requests |-> res.requests,
                   outcome |-> GetItem(res.outcome.value, "items")]

\* the whole of search: the requests it issued and its outcome
search(self, query, kwargs, transport) ==
    IF DOMAIN kwargs \cap SearchParams # {}
    THEN [requests |-> <<>>, outcome |-> Raise("TypeError")]
    ELSE IF DOMAIN kwargs \cap ListKeywords # {}
    THEN [requests |-> <<>>, outcome |-> Raise("TypeError")]
    ELSE LET res == Execute(Request(self, query, kwargs), transport)
         IN  IF res.outcome.kind = "raise"
             THEN res
             ELSE [requests |-> res.requests,
                   outcome |-> GetItem(res.outcome.value, "items")]

----------------------------------------------------------------------------
(* The inputs of the client specification *)

EnvValues(name) ==
    IF name = "CUSTOM_SEARCH_API_KEY" THEN {None, PyStr("EK")} ELSE {None, PyStr("EC")}

ApiKeyArgs == {None, PyStr(""), PyStr("K")}
CseIdArgs == {None, PyStr(""), PyStr("C")}

Queries == {PyStr("q"), PyStr("python")}

\* the options mappings passed to search: what search_query_parameter returns
\* by default, and mappings it never returns
KwargsSpace ==
    {EmptyDict,
     [num |-> PyInt(NumDefault), lr |-> PyStr(LrDefault)],
     [num |-> PyInt(NumLe + 1)],
     [q |-> PyStr("other")],
     [cx |-> PyStr("X")],
     [query |-> PyStr("again")]}

\* opaque result records
Records == {"r1", "r2"}

RECURSIVE SeqsUpTo(_, _)
SeqsUpTo(S, n) ==
    IF n = 0 THEN {<<>>}
    ELSE LET shorter == SeqsUpTo(S, n - 1)
         IN  shorter \cup {Append(s, x) : s \in {t \in shorter : Len(t) = n - 1}, x \in S}

\* what the remote API does with a request: a body with items, a body
\* without, or an error of the transport
Transports ==
    {Return([kind |-> "customsearch#search", items |-> s]) : s \in SeqsUpTo(Records, MaxItems)}
    \cup {Return([kind |-> "customsearch#search"])}
    \cup {Raise("HttpError"), Raise("TransportError")}

----------------------------------------------------------------------------
(* Actions *)

\* the process environment changes
SetEnviron(name, v) ==
    /\ environ' = [environ EXCEPT ![name] = v]
    /\ UNCHANGED <<client, ctor, argv, last>>

\* client = GoogleClient(api_key, cse_id)
Construct(api_key, cse_id) ==
    /\ client = NoClient
    /\ LET made == GoogleClient(api_key, cse_id, environ)
       IN  /\ ctor' = [api_key |-> api_key, cse_id |-> cse_id, environ |-> environ,
                       outcome |-> made]
           /\ client' = IF made.kind = "return" THEN made.value ELSE NoClient
           /\ last' = [op |-> "__init__", requests |-> <<>>]
    /\ UNCHANGED <<environ, argv>>

\* mutant: search resolves the credentials again and keeps what it finds
SearchLazy(query, kwargs, transport) ==
    /\ client # NoClient
    /\ LET self == GoogleClient(client.custom_search_api_key, client.cse_id, environ).value
           r == search(self, query, kwargs, transport)
       IN  /\ client' = self
           /\ last' = [op |-> "search", query |-> query, kwargs |-> kwargs,
                        transport |-> transport, requests |-> r.requests,
                        outcome |-> r.outcome]
    /\ UNCHANGED <<environ, ctor, argv>>

\* client.search(query, **kwargs), the remote answering with transport
Search(query, kwargs, transport) ==
    /\ client # NoClient
    /\ LET r == search(client, query, kwargs, transport)
       IN  last' = [op |-> "search", query |-> query, kwargs |-> kwargs,
                    transport |-> transport, requests |-> r.requests,
                    outcome |-> r.outcome]
    /\ UNCHANGED <<environ, client, ctor, argv>>

\* client.search_query_parameter(**kwargs)
SearchQueryParameter(kwargs) ==
    /\ client # NoClient
    /\ last' = [op |-> "search_query_parameter", kwargs |-> kwargs, requests |-> <<>>,
                outcome |-> search_query_parameter(kwargs)]
    /\ UNCHANGED <<environ, client, ctor, argv>>

----------------------------------------------------------------------------
(* The client: construction, environment changes and calls in any order *)

Init ==
    /\ environ \in [EnvNames -> {None, PyStr("EK"), PyStr("EC")}]
    /\ \A n \in EnvNames : environ[n] \in EnvValues(n)
    /\ client = NoClient
    /\ ctor = NotCalled
    /\ argv = NoArgs
    /\ last = NotCalled

Next ==
    \/ \E n \in EnvNames : \E v \in EnvValues(n) : SetEnviron(n, v)
    \/ \E k \in ApiKeyArgs : \E c \in CseIdArgs : Construct(k, c)
    \/ \E q \in Queries : \E kw \in KwargsSpace : \E t \in Transports : Search(q, kw, t)
    \/ \E kw \in ClientParamSpace : SearchQueryParameter(kw)

Spec == Init /\ [][Next]_vars

----------------------------------------------------------------------------
(* search_query_parameter as a function of its arguments: the arguments are *)
(* drawn at the start and the call is made once on a fresh client.          *)

InitParam ==
    /\ environ = [n \in EnvNames |-> None]
    /\ client = GoogleClient(None, None, environ).value
    /\ ctor = [api_key |-> None, cse_id |-> None, environ |-> environ,
               outcome |-> GoogleClient(None, None, environ)]
    /\ \E c \in ParamChoices : argv = [given |-> TRUE, kwargs |-> Supplied(c)]
    /\ last = NotCalled

CallDrawn ==
    /\ last = NotCalled
    /\ SearchQueryParameter(argv.kwargs)

NextParam == CallDrawn

SpecParam == InitParam /\ [][NextParam]_vars

----------------------------------------------------------------------------
(* Claims about search_query_parameter, checked under SpecParam *)

ParamCalled == last.op = "search_query_parameter"

NumGiven == ParamCalled /\ "num" \in DOMAIN last.kwargs /\ last.kwargs.num.t = "int"

\* C1: for every integer num in 1..100, whatever strings or None the other
\* keywords are, search_query_parameter returns a mapping whose key num has
\* exactly the supplied value.
C1_NumInRangeKept ==
    (NumGiven /\ last.kwargs.num.v >= 1 /\ last.kwargs.num.v <= 100)
    => /\ last.outcome.kind = "return"
       /\ "num" \in DOMAIN last.outcome.value
       /\ last.outcome.value["num"] = PyInt(last.kwargs.num.v)

C1_Witness ==
    /\ NumGiven /\ last.kwargs.num.v = 100
    /\ "lr" \in DOMAIN last.kwargs /\ last.kwargs["lr"] = None
    /\ "safe" \in DOMAIN last.kwargs /\ last.kwargs["safe"] = PyStr("")
    /\ last.outcome = Return([num |-> PyInt(100), safe |-> PyStr("")])

\* C2: for every integer num outside 1..100, 0 and 101 included,
\* search_query_parameter raises ValidationError and returns no mapping.
C2_NumOutOfRangeRejected ==
    (NumGiven /\ (last.kwargs.num.v < 1 \/ last.kwargs.num.v > 100))
    => last.outcome = Raise("ValidationError")

C2_Witness ==
    /\ NumGiven /\ last.kwargs.num.v = 101
    /\ last.outcome = Raise("ValidationError")

\* the value of field k after the defaults num=10 and lr="lang_ja" are applied
C3_Effective(kwargs, k) ==
    IF k \in DOMAIN kwargs THEN kwargs[k]
    ELSE IF k = "num" THEN PyInt(10)
    ELSE IF k = "lr" THEN PyStr("lang_ja")
    ELSE None

\* C3: the mapping search_query_parameter returns has exactly the keys whose
\* value after defaults is not None, each with that value, and no key maps to
\* None; no arguments give {num: 10, lr: "lang_ja"}, and exactTerms="foo"
\* alone gives {num: 10, lr: "lang_ja", exactTerms: "foo"}.
C3_OnlyNonNullKeys ==
    ParamCalled =>
      /\ (\A k \in Fields :
              LET e == C3_Effective(last.kwargs, k)
              IN  k = "num" => (e = None \/ (e.v >= 1 /\ e.v <= 100)))
         => last.outcome.kind = "return"
      /\ last.outcome.kind = "return" =>
           LET m == last.outcome.value
           IN  /\ DOMAIN m = {k \in Fields : C3_Effective(last.kwargs, k) # None}
               /\ \A k \in DOMAIN m : m[k] = C3_Effective(last.kwargs, k) /\ m[k] # None
      /\ last.kwargs = EmptyDict
           => last.outcome = Return([num |-> PyInt(10), lr |-> PyStr("lang_ja")])
      /\ last.kwargs = [exactTerms |-> PyStr("foo")]
           => last.outcome = Return([num |-> PyInt(10), lr |-> PyStr("lang_ja"),
                                     exactTerms |-> PyStr("foo")])

C3_Witness ==
    /\ ParamCalled
    /\ last.kwargs = [exactTerms |-> PyStr("foo")]
    /\ last.outcome = Return([num |-> PyInt(10), lr |-> PyStr("lang_ja"),
                              exactTerms |-> PyStr("foo")])

----------------------------------------------------------------------------
(* Claims about the client, checked under Spec *)

Constructed == client # NoClient
Searched == last.op = "search"

\* the keys an options mapping cannot hold: search and list already bind them
ReservedKeys == {"self", "query", "q", "cx"}

\* C4 as stated: the client holds the explicit argument whenever one is
\* supplied (anything but None), else the environment's value at construction.
C4_ExplicitNeverOverridden ==
    Constructed =>
      /\ client.custom_search_api_key =
            IF ctor.api_key # None THEN ctor.api_key
            ELSE ctor.environ["CUSTOM_SEARCH_API_KEY"]
      /\ client.cse_id =
            IF ctor.cse_id # None THEN ctor.cse_id
            ELSE ctor.environ["SEARCH_ENGINE_ID"]

C4_Resolved(arg, env_value) ==
    IF arg # None /\ arg # PyStr("") THEN arg ELSE env_value

\* C4 (amended): independently for the API key and the collection identifier,
\* the client holds, and sends as developerKey / cx, the explicit argument
\* when a non-empty one is supplied, else (no argument, None or the empty
\* string) the environment variable's value at construction, else None.
C4_CredentialResolution ==
    Constructed =>
      LET key == C4_Resolved(ctor.api_key, ctor.environ["CUSTOM_SEARCH_API_KEY"])
          cse == C4_Resolved(ctor.cse_id, ctor.environ["SEARCH_ENGINE_ID"])
      IN  /\ client.custom_search_api_key = key
          /\ client.cse_id = cse
          /\ Searched =>
                \A i \in 1..Len(last.requests) :
                    /\ last.requests[i].developerKey = key
                    /\ last.requests[i].params["cx"] = cse

C4_Witness ==
    /\ Constructed /\ Searched
    /\ ctor.api_key = PyStr("K") /\ ctor.cse_id = None
    /\ ctor.environ = [CUSTOM_SEARCH_API_KEY |-> PyStr("EK"), SEARCH_ENGINE_ID |-> PyStr("EC")]
    /\ Len(last.requests) = 1
    /\ last.requests[1].developerKey = PyStr("K")
    /\ last.requests[1].params["cx"] = PyStr("EC")

\* C5: search returns exactly the sequence under items of the response.
C5_ReturnsItems ==
    Searched =>
      /\ last.outcome.kind = "return" =>
            /\ last.transport.kind = "return"
            /\ "items" \in DOMAIN last.transport.value
            /\ last.outcome.value = last.transport.value.items
      /\ (/\ Len(last.requests) = 1
          /\ last.transport.kind = "return"
          /\ "items" \in DOMAIN last.transport.value)
         => last.outcome = Return(last.transport.value.items)

C5_Witness ==
    /\ Searched
    /\ last.transport = Return([kind |-> "customsearch#search", items |-> <<"r2", "r1">>])
    /\ last.outcome = Return(<<"r2", "r1">>)

\* C6: a response without items ends search in a KeyError, never in a
\* returned value.
C6_MissingItemsRaises ==
    (/\ Searched
     /\ Len(last.requests) = 1
     /\ last.transport.kind = "return"
     /\ "items" \notin DOMAIN last.transport.value)
    => last.outcome = Raise("KeyError")

C6_Witness ==
    /\ Searched
    /\ Len(last.requests) = 1
    /\ last.transport = Return([kind |-> "customsearch#search"])
    /\ last.outcome = Raise("KeyError")

\* the one request of the last search carries query, cx and the options
C7_Carries ==
    /\ Len(last.requests) = 1
    /\ LET p == last.requests[1].params
       IN  /\ DOMAIN p = {"q", "cx"} \cup DOMAIN last.kwargs
           /\ p["q"] = last.query
           /\ p["cx"] = client.cse_id
           /\ \A k \in DOMAIN last.kwargs : p[k] = last.kwargs[k]

\* C7 as stated: for every options mapping, search issues a single request
\* carrying q, cx and every pair of the mapping.
C7_AnyMappingCarried == Searched => C7_Carries

\* C7 (amended): for every options mapping that has no key q, cx, query or
\* self, validated or not, search issues a single request carrying the query
\* as q, the held collection identifier as cx and every pair of the mapping.
C7_UnreservedMappingCarried ==
    (Searched /\ DOMAIN last.kwargs \cap ReservedKeys = {}) => C7_Carries

C7_Witness ==
    /\ Searched
    /\ last.kwargs = [num |-> PyInt(101)]
    /\ Len(last.requests) = 1
    /\ last.requests[1].params["num"] = PyInt(101)
    /\ last.requests[1].params["q"] = PyStr("python")

\* C8 as stated: every invocation of search issues exactly one request.
C8_ExactlyOneRequest == Searched => Len(last.requests) = 1

\* C8 (amended): an invocation of search never issues more than one request;
\* it issues exactly one, and raises a failure of it as received, unless the
\* options hold a key q, cx, query or self, and then it raises TypeError
\* having issued none.
C8_AtMostOneRequest ==
    Searched =>
      /\ Len(last.requests) <= 1
      /\ DOMAIN last.kwargs \cap ReservedKeys = {} =>
            /\ Len(last.requests) = 1
            /\ last.transport.kind = "raise" => last.outcome = last.transport
      /\ DOMAIN last.kwargs \cap ReservedKeys # {} =>
            /\ Len(last.requests) = 0
            /\ last.outcome = Raise("TypeError")

C8_Witness ==
    /\ Searched
    /\ last.transport = Raise("TransportError")
    /\ Len(last.requests) = 1
    /\ last.outcome = Raise("TransportError")

\* C9: construction succeeds for every argument and environment, absent
\* credentials included, and issues no request; only search can then fail.
C9_ConstructionNeverFails ==
    /\ ~Constructed =>
          \A k \in ApiKeyArgs : \A c \in CseIdArgs : ENABLED Construct(k, c)
    /\ ctor # NotCalled =>
          /\ ctor.outcome.kind = "return"
          /\ Constructed
    /\ last.op = "__init__" => last.requests = <<>>

C9_Witness ==
    /\ ctor # NotCalled
    /\ ctor.api_key = None /\ ctor.cse_id = None
    /\ ctor.environ = [n \in EnvNames |-> None]
    /\ client = [custom_search_api_key |-> None, cse_id |-> None]
    /\ Searched
    /\ last.outcome = Raise("HttpError")

\* C10: whatever calls and environment changes follow construction, the
\* client holds the credentials resolved at construction and nothing else,
\* and the request of a search is made of them and of that call's own query
\* and options.
C10_CredentialsFixed ==
    Constructed =>
      /\ client = ctor.outcome.value
      /\ DOMAIN client = {"custom_search_api_key", "cse_id"}
      /\ Searched =>
            \A i \in 1..Len(last.requests) :
                last.requests[i] =
                    [developerKey |-> ctor.outcome.value.custom_search_api_key,
                     params |-> [k \in {"q", "cx"} \cup DOMAIN last.kwargs |->
                                    IF k = "q" THEN last.query
                                    ELSE IF k = "cx" THEN ctor.outcome.value.cse_id
                                    ELSE last.kwargs[k]]]

C10_Witness ==
    /\ Constructed /\ Searched
    /\ ctor.api_key = None
    /\ ctor.environ["CUSTOM_SEARCH_API_KEY"] = None
    /\ environ["CUSTOM_SEARCH_API_KEY"] = PyStr("EK")
    /\ Len(last.requests) = 1
    /\ last.requests[1].developerKey = None
    /\ client.custom_search_api_key = None

====
